---------------------------- MODULE Spec2Model ----------------------------
(***************************************************************************)
(* A model of the aipacdle daily guessing game.                            *)
(*                                                                         *)
(*   src/src/App.tsx                    the application state machine      *)
(*   src/src/components/GuessScreen.tsx the guess input and range folding  *)
(*   src/src/components/RevealScreen.tsx the labels and the final grade    *)
(*   src/src/utils/formatters.ts        percentage error and grading       *)
(*   src/src/utils/storage.ts           the localStorage session store     *)
(*   src/unnamed/part_000               the React.StrictMode entry point   *)
(*                                                                         *)
(* A JavaScript number that is a percentage is kept as an exact fraction   *)
(* [num, den] with den > 0.  For integer guesses and amounts up to the     *)
(* default range (10,000,000) the IEEE double the code computes compares   *)
(* with the thresholds 5, 10 and 15 exactly as the fraction does.          *)
(***************************************************************************)
EXTENDS Integers, Sequences, FiniteSets, TLC

(***************************************************************************)
(* Bounds of the model.                                                    *)
(***************************************************************************)
\* the model puzzle's range reaches RangeBelow under and RangeAbove over
\* its amount
RangeBelow == 4
RangeAbove == 3
\* loadPuzzle calls that may be in flight at once
MaxLoads == 2
\* guesses folded by the range specification, and its value spread
MaxFold == 3
FoldSpread == 2
\* grade specification: guess counts 0..MaxCount, percentage errors up to
\* MaxPct with denominators up to MaxDen
MaxCount == 6
MaxPct == 17
MaxDen == 2

(***************************************************************************)
(* Program constants.                                                      *)
(***************************************************************************)
\* GuessScreen.tsx:15
MAX_GUESSES == 5
\* GuessScreen.tsx:20
defaultRange == [min |-> 0, max |-> 10000000]
\* formatters.ts:25-39
RATING_CONFIG ==
  [ bullseyeThreshold |-> 5,
    sGrade |-> [maxGuesses |-> 1],
    aGrade |-> [maxGuesses |-> 3],
    bGrade |-> [maxGuesses |-> 5],
    cGrade |-> [maxPercentageError |-> 10],
    dGrade |-> [maxPercentageError |-> 15] ]

(***************************************************************************)
(* Numbers.                                                                *)
(***************************************************************************)
MathAbs(x) == IF x < 0 THEN -x ELSE x
MathMin(a, b) == IF a <= b THEN a ELSE b
MathMax(a, b) == IF a >= b THEN a ELSE b

\* the threshold comparison with < where the code has <=
PctLess(p, t) == p.num < t * p.den

\* a percentage p (a fraction) compared with an integer threshold t: p <= t
PctLeq(p, t) == p.num <= t * p.den

(***************************************************************************)
(* formatters.ts                                                           *)
(***************************************************************************)
\* calculatePercentageError without Math.abs: the sign of actual - guess kept
calculatePercentageError_signed(guessValue, actual) ==
  IF actual = 0
    THEN [num |-> 100, den |-> 1]
    ELSE [num |-> (actual - guessValue) * 100, den |-> actual]

\* calculatePercentageError dividing by the guess instead of the amount
calculatePercentageError_overGuess(guessValue, actual) ==
  IF actual = 0
    THEN [num |-> 100, den |-> 1]
    ELSE [num |-> MathAbs(actual - guessValue) * 100, den |-> MathAbs(guessValue)]

calculatePercentageError(guessValue, actual) ==
  IF actual = 0
    THEN [num |-> 100, den |-> 1]
    ELSE [num |-> MathAbs(actual - guessValue) * 100, den |-> MathAbs(actual)]

\* the star table one step too low at the top: S shown as A
getStarRating_noFifth(grade) ==
  CASE grade = "S" -> 4
    [] grade = "A" -> 4
    [] grade = "B" -> 3
    [] grade = "C" -> 2
    [] grade = "D" -> 1
    [] grade = "F" -> 0

getStarRating(grade) ==
  CASE grade = "S" -> 5
    [] grade = "A" -> 4
    [] grade = "B" -> 3
    [] grade = "C" -> 2
    [] grade = "D" -> 1
    [] grade = "F" -> 0

\* getRatingGrade without its forfeit test
getRatingGrade_noForfeit(gs, percentageError, forfeit) ==
  LET isBullseye == PctLeq(percentageError, RATING_CONFIG.bullseyeThreshold)
      guessCount == Len(gs)
  IN  IF isBullseye /\ guessCount <= RATING_CONFIG.sGrade.maxGuesses THEN "S"
      ELSE IF isBullseye /\ guessCount <= RATING_CONFIG.aGrade.maxGuesses THEN "A"
      ELSE IF isBullseye /\ guessCount <= RATING_CONFIG.bGrade.maxGuesses THEN "B"
      ELSE IF PctLeq(percentageError, RATING_CONFIG.cGrade.maxPercentageError) THEN "C"
      ELSE IF PctLeq(percentageError, RATING_CONFIG.dGrade.maxPercentageError) THEN "D"
      ELSE "F"

\* getRatingGrade comparing the guess count with < where the code has <=
getRatingGrade_strictCount(gs, percentageError, forfeit) ==
  LET isBullseye == PctLeq(percentageError, RATING_CONFIG.bullseyeThreshold)
      guessCount == Len(gs)
  IN  IF forfeit THEN "F"
      ELSE IF isBullseye /\ guessCount < RATING_CONFIG.sGrade.maxGuesses THEN "S"
      ELSE IF isBullseye /\ guessCount < RATING_CONFIG.aGrade.maxGuesses THEN "A"
      ELSE IF isBullseye /\ guessCount < RATING_CONFIG.bGrade.maxGuesses THEN "B"
      ELSE IF PctLeq(percentageError, RATING_CONFIG.cGrade.maxPercentageError) THEN "C"
      ELSE IF PctLeq(percentageError, RATING_CONFIG.dGrade.maxPercentageError) THEN "D"
      ELSE "F"

\* getRatingGrade testing the D threshold before the C threshold
getRatingGrade_swappedTiers(gs, percentageError, forfeit) ==
  LET isBullseye == PctLeq(percentageError, RATING_CONFIG.bullseyeThreshold)
      guessCount == Len(gs)
  IN  IF forfeit THEN "F"
      ELSE IF isBullseye /\ guessCount <= RATING_CONFIG.sGrade.maxGuesses THEN "S"
      ELSE IF isBullseye /\ guessCount <= RATING_CONFIG.aGrade.maxGuesses THEN "A"
      ELSE IF isBullseye /\ guessCount <= RATING_CONFIG.bGrade.maxGuesses THEN "B"
      ELSE IF PctLeq(percentageError, RATING_CONFIG.dGrade.maxPercentageError) THEN "D"
      ELSE IF PctLeq(percentageError, RATING_CONFIG.cGrade.maxPercentageError) THEN "C"
      ELSE "F"

\* getRatingGrade with the bullseye tiers in the opposite order of counts
getRatingGrade_invertedCount(gs, percentageError, forfeit) ==
  LET isBullseye == PctLeq(percentageError, RATING_CONFIG.bullseyeThreshold)
      guessCount == Len(gs)
  IN  IF forfeit THEN "F"
      ELSE IF isBullseye /\ guessCount <= RATING_CONFIG.sGrade.maxGuesses THEN "B"
      ELSE IF isBullseye /\ guessCount <= RATING_CONFIG.aGrade.maxGuesses THEN "A"
      ELSE IF isBullseye /\ guessCount <= RATING_CONFIG.bGrade.maxGuesses THEN "S"
      ELSE IF PctLeq(percentageError, RATING_CONFIG.cGrade.maxPercentageError) THEN "C"
      ELSE IF PctLeq(percentageError, RATING_CONFIG.dGrade.maxPercentageError) THEN "D"
      ELSE "F"

getRatingGrade(gs, percentageError, forfeit) ==
  LET isBullseye == PctLeq(percentageError, RATING_CONFIG.bullseyeThreshold)
      guessCount == Len(gs)
  IN  IF forfeit THEN "F"
      ELSE IF isBullseye /\ guessCount <= RATING_CONFIG.sGrade.maxGuesses THEN "S"
      ELSE IF isBullseye /\ guessCount <= RATING_CONFIG.aGrade.maxGuesses THEN "A"
      ELSE IF isBullseye /\ guessCount <= RATING_CONFIG.bGrade.maxGuesses THEN "B"
      ELSE IF PctLeq(percentageError, RATING_CONFIG.cGrade.maxPercentageError) THEN "C"
      ELSE IF PctLeq(percentageError, RATING_CONFIG.dGrade.maxPercentageError) THEN "D"
      ELSE "F"

(***************************************************************************)
(* GuessScreen.tsx: feedback and the effective range                       *)
(***************************************************************************)
\* puzzle.range || defaultRange
baseRange(p) == IF p.hasRange THEN p.range ELSE defaultRange

\* getFeedback with its two comparisons exchanged
getFeedback_swapped(p, guessValue) ==
  IF guessValue < p.amount THEN "too-high"
  ELSE IF guessValue > p.amount THEN "too-low"
  ELSE "correct"

getFeedback(p, guessValue) ==
  IF guessValue > p.amount THEN "too-high"
  ELSE IF guessValue < p.amount THEN "too-low"
  ELSE "correct"

\* the loop body excluding nothing: the bounds set to the guess itself
narrowStep_offByOne(p, r, g) ==
  LET feedback == getFeedback(p, g)
  IN  IF feedback = "too-high" THEN [min |-> r.min, max |-> MathMin(r.max, g)]
      ELSE IF feedback = "too-low" THEN [min |-> MathMax(r.min, g), max |-> r.max]
      ELSE r

\* the loop body assigning the bound without Math.min / Math.max
narrowStep_assign(p, r, g) ==
  LET feedback == getFeedback(p, g)
  IN  IF feedback = "too-high" THEN [min |-> r.min, max |-> g - 1]
      ELSE IF feedback = "too-low" THEN [min |-> g + 1, max |-> r.max]
      ELSE r

\* one pass of the for loop of getEffectiveRange
narrowStep(p, r, g) ==
  LET feedback == getFeedback(p, g)
  IN  IF feedback = "too-high" THEN [min |-> r.min, max |-> MathMin(r.max, g - 1)]
      ELSE IF feedback = "too-low" THEN [min |-> MathMax(r.min, g + 1), max |-> r.max]
      ELSE r

RECURSIVE narrowFrom(_, _, _)
narrowFrom(p, r, gs) ==
  IF gs = <<>> THEN r
  ELSE narrowFrom(p, narrowStep(p, r, Head(gs)), Tail(gs))

getEffectiveRange(p, gs) == narrowFrom(p, baseRange(p), gs)

\* the default offered after a guess: the useEffect on guesses.length
\* the effect never run: the last submitted guess as useState received it
autoAdjust_lastGuess(p, gs) == gs[Len(gs)]

autoAdjust(p, gs) ==
  LET lastSubmittedGuess == gs[Len(gs)]
      feedback == getFeedback(p, lastSubmittedGuess)
      effectiveRange == getEffectiveRange(p, gs)
      adjustedGuess == IF feedback = "too-low" THEN lastSubmittedGuess + 1
                       ELSE IF feedback = "too-high" THEN lastSubmittedGuess - 1
                       ELSE lastSubmittedGuess
  IN  MathMax(effectiveRange.min, MathMin(effectiveRange.max, adjustedGuess))

\* the value of the guess state once GuessScreen has mounted: useState's
\* getInitialGuess() followed by the mount run of the effect
getInitialGuess(p, gs) ==
  IF Len(gs) = 0 THEN baseRange(p).min ELSE autoAdjust(p, gs)

(***************************************************************************)
(* RevealScreen.tsx: what the screen computes from its props               *)
(***************************************************************************)
\* getGuessFeedback testing the bullseye threshold before the exact match
getGuessFeedback_bullseyeFirst(p, guessValue) ==
  IF PctLeq(calculatePercentageError(guessValue, p.amount), RATING_CONFIG.bullseyeThreshold)
    THEN "bullseye"
  ELSE IF guessValue = p.amount THEN "correct"
  ELSE IF guessValue > p.amount THEN "too-high"
  ELSE "too-low"

getGuessFeedback(p, guessValue) ==
  IF guessValue = p.amount THEN "correct"
  ELSE IF PctLeq(calculatePercentageError(guessValue, p.amount), RATING_CONFIG.bullseyeThreshold)
    THEN "bullseye"
  ELSE IF guessValue > p.amount THEN "too-high"
  ELSE "too-low"

\* the values RevealScreen derives before it renders; labels are the
\* getGuessFeedback of each row of the guess list
RevealScreen(p, gs, forfeit) ==
  LET actual == p.amount
      lastGuess == IF Len(gs) = 0 THEN 0 ELSE gs[Len(gs)]
      percentageError == calculatePercentageError(lastGuess, actual)
      isBullseye == ~forfeit /\ PctLeq(percentageError, RATING_CONFIG.bullseyeThreshold)
      rating == getRatingGrade(gs, percentageError, forfeit)
  IN  [ isForfeit |-> forfeit,
        percentageError |-> percentageError,
        isBullseye |-> isBullseye,
        rating |-> rating,
        stars |-> getStarRating(rating),
        labels |-> [i \in 1 .. Len(gs) |-> getGuessFeedback(p, gs[i])] ]

(***************************************************************************)
(* storage.ts: localStorage, a map from key to string                      *)
(***************************************************************************)
Dates == {"d1"}
\* the key aipac.cash:theme, which belongs to no date
ThemeKey == <<"theme">>
StorageKeys ==
  {<<d, k>> : d \in Dates, k \in {"guesses", "guess", "revealed", "bullseye-shown"}}
  \cup {ThemeKey}
\* localStorage.getItem of a key that is not set
Absent == <<>>
\* JSON text of a number array, and its parse
JSONstringify(gs) == <<"json", gs>>
JSONparse(text) == text[2]

saveGuesses(st, date, gs) == [st EXCEPT ![<<date, "guesses">>] = JSONstringify(gs)]
getGuesses(st, date) ==
  LET stored == st[<<date, "guesses">>]
  IN  IF stored /= Absent THEN JSONparse(stored) ELSE <<>>
isRevealed(st, date) == st[<<date, "revealed">>] = <<"true">>
saveReveal(st, date) == [st EXCEPT ![<<date, "revealed">>] = <<"true">>]
\* localStorage.clear() in place of the four removeItem calls
clearPuzzleData_all(st, date) == [k \in StorageKeys |-> Absent]

clearPuzzleData(st, date) ==
  [k \in StorageKeys |-> IF k[1] = date THEN Absent ELSE st[k]]

\* the initial value of the theme state: the saved theme, or 'dark'
savedTheme(st) == IF st[ThemeKey] = Absent THEN "dark" ELSE st[ThemeKey][1]
\* the effect on [theme]: the theme state written to its key
themeEffect(st, theme) == [st EXCEPT ![ThemeKey] = <<theme>>]

(***************************************************************************)
(* The puzzle source: the puzzle files a load may return.                  *)
(***************************************************************************)
NoPuzzle == [date |-> "none"]
PuzzleSet ==
  { \* the amount inside its range
    [date |-> "d1", amount |-> 20, hasRange |-> TRUE,
     range |-> [min |-> 20 - RangeBelow, max |-> 20 + RangeAbove]],
    \* the amount over its range
    [date |-> "d1", amount |-> 20, hasRange |-> TRUE,
     range |-> [min |-> 20 - RangeBelow, max |-> 18]],
    \* no range in the file: the default range applies
    [date |-> "d1", amount |-> 20, hasRange |-> FALSE,
     range |-> [min |-> 0, max |-> 0]] }
\* what the player sets on the slider or types: every value of a puzzle's
\* range, and for the default range its two ends and values about the amount
inputValues(p) ==
  IF p.hasRange THEN (20 - RangeBelow) .. (20 + RangeAbove)
  ELSE {defaultRange.min, 17, 18, 19, 22, defaultRange.max}

(***************************************************************************)
(* State.                                                                  *)
(***************************************************************************)
VARIABLES
  source,         \* the puzzle file the puzzle source serves
  storage,        \* localStorage
  loads,          \* loadPuzzle calls awaiting loadTodayPuzzle
  state,          \* App: state
  previousState,  \* App: previousState ("null" for null)
  puzzle,         \* App: puzzle (NoPuzzle for null)
  guesses,        \* App: guesses
  isForfeit,      \* App: isForfeit
  guess,          \* GuessScreen: guess (0 while not mounted)
  isEditing,      \* GuessScreen: isEditing
  editValue,      \* GuessScreen: editValue, <<>> for '' and <<n>> for digits
  args,           \* function specifications: the arguments of the call
  result          \* function specifications: what the call returned

appVars == <<state, previousState, puzzle, guesses, isForfeit>>
screenVars == <<guess, isEditing, editValue>>
envVars == <<source, storage, loads>>
callVars == <<args, result>>
vars == <<envVars, appVars, screenVars, callVars>>

(***************************************************************************)
(* GuessScreen.tsx: what a render of the screen derives                    *)
(***************************************************************************)
canGuess == Len(guesses) + 1 <= MAX_GUESSES
effectiveRange == getEffectiveRange(puzzle, guesses)
\* parseInt(editValue.replace(/,/g, ''), 10): <<>> stands for NaN
parseEdit(text) == text
isNaN(n) == n = <<>>
\* isEditing ? (parseInt(...) || 0) : guess
currentValueToCheck ==
  IF isEditing
    THEN (IF isNaN(parseEdit(editValue)) THEN 0 ELSE parseEdit(editValue)[1])
    ELSE guess
\* isValidGuess without the test against the upper and lower bound
isValidGuess_unbounded == TRUE

isValidGuess ==
  /\ currentValueToCheck >= effectiveRange.min
  /\ currentValueToCheck <= effectiveRange.max
clampToRange(r, v) == MathMax(r.min, MathMin(r.max, v))

\* The GuessScreen state after App has moved to (st, p, gs): the screen is
\* mounted exactly while App's state is 'guess'; a mount initialises its
\* state, and a change of guesses.length runs the auto-adjust effect.
screenAfter(st, p, gs) ==
  IF st /= "guess" THEN <<0, FALSE, <<>>>>
  ELSE IF state /= "guess" THEN <<getInitialGuess(p, gs), FALSE, <<>>>>
  ELSE IF Len(gs) /= Len(guesses) /\ Len(gs) > 0
    THEN <<autoAdjust(p, gs), isEditing, editValue>>
  ELSE <<guess, isEditing, editValue>>

renderScreen(st, p, gs) ==
  LET after == screenAfter(st, p, gs)
  IN  guess' = after[1] /\ isEditing' = after[2] /\ editValue' = after[3]

(***************************************************************************)
(* App.tsx                                                                 *)
(***************************************************************************)
EmptyStorage == [k \in StorageKeys |-> Absent]

\* The page has just been opened: App is constructed, and the mount effect
\* has called loadPuzzle once, or twice under React.StrictMode in a
\* development build.
Init ==
  /\ source \in PuzzleSet
  /\ storage = themeEffect(EmptyStorage, savedTheme(EmptyStorage))
  /\ loads \in 1 .. 2
  /\ state = "loading"
  /\ previousState = "null"
  /\ puzzle = NoPuzzle
  /\ guesses = <<>>
  /\ isForfeit = FALSE
  /\ guess = 0 /\ isEditing = FALSE /\ editValue = <<>>
  /\ args = <<>> /\ result = <<>>

\* loadPuzzle, from the completion of its await to its end; data is what
\* loadTodayPuzzle returned
\* loadPuzzle's completion starting a fresh session instead of reading the store
loadPuzzleDone_fresh(data) ==
  /\ loads > 0
  /\ loads' = loads - 1
  /\ IF data = NoPuzzle
       THEN /\ state' = "error"
            /\ UNCHANGED <<puzzle, guesses, screenVars>>
       ELSE /\ puzzle' = data
            /\ guesses' = <<>>
            /\ state' = "guess"
            /\ renderScreen("guess", data, <<>>)
  /\ UNCHANGED <<source, storage, previousState, isForfeit, callVars>>

loadPuzzleDone(data) ==
  /\ loads > 0
  /\ loads' = loads - 1
  /\ IF data = NoPuzzle
       THEN /\ state' = "error"
            /\ UNCHANGED <<puzzle, guesses, screenVars>>
       ELSE LET revealed == isRevealed(storage, data.date)
                savedGuesses == getGuesses(storage, data.date)
                st == IF revealed /\ Len(savedGuesses) > 0 THEN "reveal" ELSE "guess"
            IN  /\ puzzle' = data
                /\ guesses' = savedGuesses
                /\ state' = st
                /\ renderScreen(st, data, savedGuesses)
  /\ UNCHANGED <<source, storage, previousState, isForfeit, callVars>>

LoadPuzzleOk == loadPuzzleDone(source)
LoadPuzzleFail == loadPuzzleDone(NoPuzzle)

\* handleGuess revealing on five guesses or an exact match only
handleGuess_noBullseye(g) ==
  /\ puzzle /= NoPuzzle
  /\ LET newGuesses == Append(guesses, g)
         reveal == Len(newGuesses) >= 5 \/ g = puzzle.amount
         st == IF reveal THEN "reveal" ELSE state
         saved == saveGuesses(storage, puzzle.date, newGuesses)
     IN  /\ guesses' = newGuesses
         /\ storage' = IF reveal THEN saveReveal(saved, puzzle.date) ELSE saved
         /\ state' = st
         /\ renderScreen(st, puzzle, newGuesses)
  /\ UNCHANGED <<source, loads, previousState, puzzle, isForfeit, callVars>>

\* handleGuess saving the guesses state of the current render, not newGuesses
handleGuess_saveStale(g) ==
  /\ puzzle /= NoPuzzle
  /\ LET newGuesses == Append(guesses, g)
         percentageError == calculatePercentageError(g, puzzle.amount)
         isBullseye == PctLeq(percentageError, RATING_CONFIG.bullseyeThreshold)
         reveal == Len(newGuesses) >= 5 \/ g = puzzle.amount \/ isBullseye
         st == IF reveal THEN "reveal" ELSE state
         saved == saveGuesses(storage, puzzle.date, guesses)
     IN  /\ guesses' = newGuesses
         /\ storage' = IF reveal THEN saveReveal(saved, puzzle.date) ELSE saved
         /\ state' = st
         /\ renderScreen(st, puzzle, newGuesses)
  /\ UNCHANGED <<source, loads, previousState, puzzle, isForfeit, callVars>>

\* handleGuess without its saveReveal call
handleGuess_revealUnsaved(g) ==
  /\ puzzle /= NoPuzzle
  /\ LET newGuesses == Append(guesses, g)
         percentageError == calculatePercentageError(g, puzzle.amount)
         isBullseye == PctLeq(percentageError, RATING_CONFIG.bullseyeThreshold)
         reveal == Len(newGuesses) >= 5 \/ g = puzzle.amount \/ isBullseye
         st == IF reveal THEN "reveal" ELSE state
         saved == saveGuesses(storage, puzzle.date, newGuesses)
     IN  /\ guesses' = newGuesses
         /\ storage' = saved
         /\ state' = st
         /\ renderScreen(st, puzzle, newGuesses)
  /\ UNCHANGED <<source, loads, previousState, puzzle, isForfeit, callVars>>

handleGuess(g) ==
  /\ puzzle /= NoPuzzle
  /\ LET newGuesses == Append(guesses, g)
         percentageError == calculatePercentageError(g, puzzle.amount)
         isBullseye == PctLeq(percentageError, RATING_CONFIG.bullseyeThreshold)
         reveal == Len(newGuesses) >= 5 \/ g = puzzle.amount \/ isBullseye
         st == IF reveal THEN "reveal" ELSE state
         saved == saveGuesses(storage, puzzle.date, newGuesses)
     IN  /\ guesses' = newGuesses
         /\ storage' = IF reveal THEN saveReveal(saved, puzzle.date) ELSE saved
         /\ state' = st
         /\ renderScreen(st, puzzle, newGuesses)
  /\ UNCHANGED <<source, loads, previousState, puzzle, isForfeit, callVars>>

\* GuessScreen: the Guess button
HandleSubmit ==
  /\ state = "guess"
  /\ canGuess /\ isValidGuess
  /\ handleGuess(guess)

\* GuessScreen: the Reveal Answer button, shown when no guess is left
HandleRevealEarly ==
  /\ state = "guess"
  /\ ~canGuess
  /\ puzzle /= NoPuzzle
  /\ storage' = saveReveal(storage, puzzle.date)
  /\ isForfeit' = TRUE
  /\ state' = "reveal"
  /\ renderScreen("reveal", puzzle, guesses)
  /\ UNCHANGED <<source, loads, previousState, puzzle, guesses, callVars>>

handleHome ==
  /\ loads < MaxLoads
  /\ IF puzzle /= NoPuzzle
       THEN /\ storage' = clearPuzzleData(storage, puzzle.date)
            /\ guesses' = <<>>
            /\ isForfeit' = FALSE
       ELSE UNCHANGED <<storage, guesses, isForfeit>>
  /\ previousState' = "null"
  /\ state' = "loading"
  /\ loads' = loads + 1
  /\ renderScreen("loading", puzzle, <<>>)
  /\ UNCHANGED <<source, puzzle, callVars>>

\* the back button of the header
HandleBack ==
  /\ state \in {"about", "reveal", "resources"}
  /\ IF previousState /= "null"
       THEN /\ state' = previousState
            /\ previousState' = "null"
            /\ renderScreen(previousState, puzzle, guesses)
            /\ UNCHANGED <<envVars, puzzle, guesses, isForfeit, callVars>>
       ELSE handleHome

\* RevealScreen is rendered, with its resources button, when there is a guess
HandleResources ==
  /\ state = "reveal" /\ Len(guesses) > 0
  /\ previousState' = state
  /\ state' = "resources"
  /\ UNCHANGED <<envVars, puzzle, guesses, isForfeit, screenVars, callVars>>

\* the help button of the header
HandleAbout ==
  /\ state = "guess"
  /\ previousState' = state
  /\ state' = "about"
  /\ renderScreen("about", puzzle, guesses)
  /\ UNCHANGED <<envVars, puzzle, guesses, isForfeit, callVars>>

(***************************************************************************)
(* GuessScreen.tsx: the inputs of the guess                                *)
(***************************************************************************)
\* LogSlider's handleSliderChange: Math.round(min + (max - min) * x) for a
\* slider position x in [0, 1], handed to GuessScreen's onChange
sliderValues(r) ==
  {v \in inputValues(puzzle) : MathMin(r.min, r.max) <= v /\ v <= MathMax(r.min, r.max)}

SliderChange ==
  /\ state = "guess" /\ canGuess
  /\ \E newValue \in sliderValues(effectiveRange) : guess' = newValue
  /\ UNCHANGED <<envVars, appVars, isEditing, editValue, callVars>>

\* a click on the displayed value opens the text input
StartEdit ==
  /\ state = "guess" /\ canGuess
  /\ ~isEditing
  /\ isEditing' = TRUE
  /\ editValue' = <<guess>>
  /\ UNCHANGED <<envVars, appVars, guess, callVars>>

\* the input's onChange: digits (and commas) only, possibly none
ChangeEdit ==
  /\ state = "guess" /\ canGuess
  /\ isEditing
  /\ \E text \in {<<>>} \cup {<<v>> : v \in inputValues(puzzle)} : editValue' = text
  /\ UNCHANGED <<envVars, appVars, guess, isEditing, callVars>>

BlurEdit ==
  /\ state = "guess" /\ canGuess
  /\ isEditing
  /\ LET numericValue == parseEdit(editValue)
     IN  IF ~isNaN(numericValue)
           THEN LET clampedValue == clampToRange(effectiveRange, numericValue[1])
                IN  guess' = clampedValue /\ editValue' = <<clampedValue>>
           ELSE guess' = guess /\ editValue' = <<guess>>
  /\ isEditing' = FALSE
  /\ UNCHANGED <<envVars, appVars, callVars>>

\* onKeyDown with Enter
EnterEdit ==
  /\ state = "guess" /\ canGuess
  /\ isEditing
  /\ LET numericValue == parseEdit(editValue)
     IN  IF ~isNaN(numericValue) /\ isValidGuess
           THEN guess' = numericValue[1] /\ isEditing' = FALSE /\ editValue' = editValue
         ELSE IF ~isNaN(numericValue)
           THEN LET clampedValue == clampToRange(effectiveRange, numericValue[1])
                IN  guess' = clampedValue /\ editValue' = <<clampedValue>>
                    /\ isEditing' = FALSE
         ELSE UNCHANGED screenVars
  /\ UNCHANGED <<envVars, appVars, callVars>>

\* onKeyDown with Escape
EscapeEdit ==
  /\ state = "guess" /\ canGuess
  /\ isEditing
  /\ isEditing' = FALSE
  /\ editValue' = <<guess>>
  /\ UNCHANGED <<envVars, appVars, guess, callVars>>

(***************************************************************************)
(* The page is reloaded: the script starts again over the same storage.    *)
(***************************************************************************)
Reload ==
  /\ loads' \in 1 .. 2
  /\ state' = "loading"
  /\ previousState' = "null"
  /\ puzzle' = NoPuzzle
  /\ guesses' = <<>>
  /\ isForfeit' = FALSE
  /\ guess' = 0 /\ isEditing' = FALSE /\ editValue' = <<>>
  /\ UNCHANGED <<source, storage, callVars>>

Next ==
  \/ LoadPuzzleOk
  \/ LoadPuzzleFail
  \/ HandleSubmit
  \/ HandleRevealEarly
  \/ HandleBack
  \/ HandleResources
  \/ HandleAbout
  \/ SliderChange
  \/ StartEdit
  \/ ChangeEdit
  \/ BlurEdit
  \/ EnterEdit
  \/ EscapeEdit
  \/ Reload

Spec == Init /\ [][Next]_vars

(***************************************************************************)
(* The theme.  It touches nothing but its own key, so the specification    *)
(* above keeps the theme it starts with; this one adds the toggle, over    *)
(* one puzzle and any saved theme.                                         *)
(***************************************************************************)
\* the theme button of the header, rendered once a puzzle is on screen
ToggleTheme ==
  /\ state \in {"guess", "reveal", "about", "resources"}
  /\ puzzle /= NoPuzzle
  /\ storage' = themeEffect(storage, IF savedTheme(storage) = "dark" THEN "light" ELSE "dark")
  /\ UNCHANGED <<source, loads, appVars, screenVars, callVars>>

InitTheme ==
  /\ source = [date |-> "d1", amount |-> 20, hasRange |-> TRUE,
               range |-> [min |-> 20 - RangeBelow, max |-> 20 + RangeAbove]]
  /\ \E saved \in {Absent, <<"dark">>, <<"light">>} :
       LET found == [EmptyStorage EXCEPT ![ThemeKey] = saved]
       IN  storage = themeEffect(found, savedTheme(found))
  /\ loads \in 1 .. 2
  /\ state = "loading"
  /\ previousState = "null"
  /\ puzzle = NoPuzzle
  /\ guesses = <<>>
  /\ isForfeit = FALSE
  /\ guess = 0 /\ isEditing = FALSE /\ editValue = <<>>
  /\ args = <<>> /\ result = <<>>

NextTheme ==
  \/ Next
  \/ ToggleTheme

SpecTheme == InitTheme /\ [][NextTheme]_vars

(***************************************************************************)
(* Function specifications: a pure function applied to inputs drawn from   *)
(* bounded sets.  The application's variables that a function does not     *)
(* read stay as constructed.                                               *)
(***************************************************************************)
Idle ==
  /\ source = NoPuzzle
  /\ storage = EmptyStorage
  /\ loads = 0
  /\ state = "loading"
  /\ previousState = "null"
  /\ isForfeit = FALSE
  /\ guess = 0 /\ isEditing = FALSE /\ editValue = <<>>

\* ---- getRatingGrade and getStarRating, as RevealScreen calls them
GradeGuesses ==
  {[i \in 1 .. n |-> v] : n \in 0 .. MaxCount, v \in {0, 20}}
PctInputs ==
  UNION {{[num |-> n, den |-> d] : n \in 0 .. MaxPct * d} : d \in 1 .. MaxDen}

InitGrade ==
  /\ Idle
  /\ puzzle = NoPuzzle
  /\ guesses = <<>>
  /\ args \in [guesses : GradeGuesses, percentageError : PctInputs, isForfeit : BOOLEAN]
  /\ result = <<>>

CallGetRatingGrade ==
  /\ result = <<>>
  /\ LET rating == getRatingGrade(args.guesses, args.percentageError, args.isForfeit)
     IN  result' = [grade |-> rating, stars |-> getStarRating(rating)]
  /\ UNCHANGED <<envVars, appVars, screenVars, args>>

NextGrade == CallGetRatingGrade

SpecGrade == InitGrade /\ [][NextGrade]_vars

\* ---- getEffectiveRange over any base range and any guess sequence
FoldValues == (10 - FoldSpread) .. (10 + FoldSpread)
RangePuzzles ==
  { [date |-> "d1", amount |-> 10, hasRange |-> TRUE, range |-> [min |-> lo, max |-> hi]] :
      lo \in FoldValues, hi \in FoldValues }
  \cup
  { [date |-> "d1", amount |-> 1000000, hasRange |-> FALSE, range |-> [min |-> 0, max |-> 0]] }
foldInputs(p) ==
  IF p.hasRange THEN FoldValues ELSE {500000, 1000000, 2000000}

InitRange ==
  /\ Idle
  /\ puzzle \in {p \in RangePuzzles : baseRange(p).min < baseRange(p).max}
  /\ guesses = <<>>
  /\ args = <<>>
  /\ result = getEffectiveRange(puzzle, <<>>)

\* one more guess in the list GuessScreen is rendered with
FoldGuess ==
  /\ Len(guesses) < MaxFold
  /\ \E g \in foldInputs(puzzle) :
       /\ guesses' = Append(guesses, g)
       /\ result' = getEffectiveRange(puzzle, guesses')
  /\ UNCHANGED <<envVars, state, previousState, puzzle, isForfeit, screenVars, args>>

NextRange == FoldGuess

SpecRange == InitRange /\ [][NextRange]_vars

\* ---- one guess against one amount, through every function that judges it
MaxActual == 21
GuessPuzzles ==
  { [date |-> "d1", amount |-> a, hasRange |-> FALSE, range |-> [min |-> 0, max |-> 0]] :
      a \in 0 .. MaxActual }
GuessInputs == (0 - 2) .. (2 * MaxActual)

InitGuess ==
  /\ source = NoPuzzle
  /\ storage = EmptyStorage
  /\ loads = 0
  /\ state = "guess"
  /\ previousState = "null"
  /\ puzzle \in GuessPuzzles
  /\ guesses = <<>>
  /\ isForfeit = FALSE
  /\ guess = getInitialGuess(puzzle, <<>>) /\ isEditing = FALSE /\ editValue = <<>>
  /\ args \in [guess : GuessInputs]
  /\ result = <<>>

\* the value a function returned, kept under the function's name
returned(fn, value) ==
  /\ fn \notin DOMAIN result
  /\ result' = (fn :> value) @@ result
  /\ UNCHANGED <<envVars, appVars, screenVars, args>>

\* onGuess(args.guess) as the first guess of the session
SubmitGuess ==
  /\ state = "guess" /\ guesses = <<>>
  /\ handleGuess(args.guess)

CallGetFeedback ==
  returned("getFeedback", getFeedback(puzzle, args.guess))

CallCalculatePercentageError ==
  returned("calculatePercentageError", calculatePercentageError(args.guess, puzzle.amount))

\* RevealScreen rendered with the one guess, forfeited or not
RenderRevealScreen ==
  \E forfeit \in BOOLEAN :
    returned("RevealScreen", RevealScreen(puzzle, <<args.guess>>, forfeit))

\* GuessScreen's range once the guess is in the list
CallGetEffectiveRange ==
  returned("getEffectiveRange", getEffectiveRange(puzzle, <<args.guess>>))

NextGuess ==
  \/ SubmitGuess
  \/ CallGetFeedback
  \/ CallCalculatePercentageError
  \/ RenderRevealScreen
  \/ CallGetEffectiveRange

SpecGuess == InitGuess /\ [][NextGuess]_vars

(***************************************************************************)
(* Properties.                                                             *)
(***************************************************************************)
\* a step of the guess screen that appends a guess to the sequence
GuessAppended == state = "guess" /\ Len(guesses') = Len(guesses) + 1
lastOf(gs) == gs[Len(gs)]
\* the percentage error of g against amount a > 0 is at most t
WithinPct(g, a, t) == 100 * MathAbs(a - g) <= t * a

\* C1: right after handleGuess appends a guess g, the app is in 'reveal', with
\* the revealed flag stored, iff the new count is >= 5, or g is the amount, or
\* g's percentage error is <= 5; otherwise it stays in 'guess' and stores no flag.
C1_TerminationRule ==
  [][GuessAppended =>
       LET g == lastOf(guesses')
           ends == \/ Len(guesses') >= 5
                   \/ g = puzzle.amount
                   \/ WithinPct(g, puzzle.amount, 5)
       IN  /\ guesses' = Append(guesses, g)
           /\ (state' = "reveal") <=> ends
           /\ ends => isRevealed(storage', puzzle.date)
           /\ ~ends => /\ state' = "guess"
                       /\ isRevealed(storage', puzzle.date) = isRevealed(storage, puzzle.date)]_vars

\* a session revealed by a second guess that is a bullseye and not the amount
C1_Witness ==
  /\ state = "reveal"
  /\ Len(guesses) = 2
  /\ lastOf(guesses) = 21
  /\ puzzle.amount = 20
  /\ isRevealed(storage, puzzle.date)

\* C2: the session never holds more than five guesses, and in the 'guess'
\* state it holds fewer than five.
C2_AtMostFive ==
  /\ Len(guesses) <= 5
  /\ state = "guess" => Len(guesses) < 5

\* C3: a forfeit is graded F with no star, whatever the guesses and the
\* percentage error; the grade depends on the guesses through their count only.
C3_ForfeitIsF ==
  result /= <<>> =>
    /\ args.isForfeit => result.grade = "F" /\ result.stars = 0
    /\ \A gs \in GradeGuesses :
         Len(gs) = Len(args.guesses) =>
           getRatingGrade(gs, args.percentageError, args.isForfeit) = result.grade

\* one forfeited guess with percentage error 0, graded F
C3_Witness ==
  /\ result /= <<>>
  /\ args.isForfeit
  /\ Len(args.guesses) = 1
  /\ args.percentageError = [num |-> 0, den |-> 1]
  /\ result.grade = "F"

\* C4: without forfeit and with a final percentage error <= 5 the grade is S
\* for at most one guess, A for two or three, B for four or five.
C4_BullseyeTiers ==
  (result /= <<>> /\ ~args.isForfeit
     /\ args.percentageError.num <= 5 * args.percentageError.den) =>
    LET n == Len(args.guesses)
    IN  /\ n <= 1 => result.grade = "S"
        /\ n \in 2 .. 3 => result.grade = "A"
        /\ n \in 4 .. 5 => result.grade = "B"

\* a bullseye of exactly 5% on the third guess, graded A
C4_Witness ==
  /\ result /= <<>>
  /\ ~args.isForfeit
  /\ Len(args.guesses) = 3
  /\ args.percentageError = [num |-> 5, den |-> 1]
  /\ result.grade = "A"

\* C5: without forfeit, when no bullseye tier applies (error > 5, or more than
\* five guesses), the grade is C for an error <= 10, else D for an error <= 15,
\* else F.
C5_ErrorTiers ==
  (result /= <<>> /\ ~args.isForfeit
     /\ (args.percentageError.num > 5 * args.percentageError.den \/ Len(args.guesses) > 5)) =>
    LET e == args.percentageError
    IN  result.grade = IF e.num <= 10 * e.den THEN "C"
                       ELSE IF e.num <= 15 * e.den THEN "D"
                       ELSE "F"

\* a final error of 12% that is no forfeit, graded D
C5_Witness ==
  /\ result /= <<>>
  /\ ~args.isForfeit
  /\ args.percentageError = [num |-> 12, den |-> 1]
  /\ result.grade = "D"

\* C6: the effective range never has min > max, for any base range, amount
\* and guess sequence.
C6_NeverInverted == result.min <= result.max

\* C7: when the base range holds the amount, so does the effective range
\* after any sequence of guesses.
C7_AmountStaysInside ==
  (baseRange(puzzle).min <= puzzle.amount /\ puzzle.amount <= baseRange(puzzle).max) =>
    /\ result.min <= puzzle.amount
    /\ puzzle.amount <= result.max
    /\ result.min <= result.max

\* guesses on both sides have closed the range onto the amount
C7_Witness ==
  /\ baseRange(puzzle).min < puzzle.amount
  /\ puzzle.amount < baseRange(puzzle).max
  /\ Len(guesses) >= 2
  /\ result.min = puzzle.amount
  /\ result.max = puzzle.amount

SetMin(S) == CHOOSE x \in S : \A y \in S : x <= y
SetMax(S) == CHOOSE x \in S : \A y \in S : x >= y
guessSet == {guesses[i] : i \in 1 .. Len(guesses)}

\* C8: the effective max is the least of base.max and g - 1 over the guesses
\* g above the amount, the effective min the greatest of base.min and g + 1
\* over the guesses g below it; a guess equal to the amount moves neither.
C8_FoldOfGuesses ==
  /\ result.max = SetMin({baseRange(puzzle).max}
                           \cup {g - 1 : g \in {h \in guessSet : h > puzzle.amount}})
  /\ result.min = SetMax({baseRange(puzzle).min}
                           \cup {g + 1 : g \in {h \in guessSet : h < puzzle.amount}})

\* amount 1,000,000 and guesses [2,000,000] under the default range
C8_Witness ==
  /\ puzzle.amount = 1000000
  /\ guesses = <<2000000>>
  /\ result = [min |-> defaultRange.min, max |-> 1999999]

\* C9: one more guess never lowers the effective min nor raises the effective max.
C9_Monotonic ==
  [][Len(guesses') = Len(guesses) + 1 =>
       /\ result'.min >= result.min
       /\ result'.max <= result.max]_vars

\* a guess above an earlier too-high guess has left the max where it was
C9_Witness ==
  /\ Len(guesses) = 2
  /\ guesses[1] > puzzle.amount
  /\ guesses[2] > guesses[1]
  /\ guesses[1] - 1 < baseRange(puzzle).max
  /\ result.max = guesses[1] - 1

\* C10: a submitted guess over the amount lowers the effective max to exactly
\* guess - 1, below what it was; one under the amount raises the effective min
\* to exactly guess + 1, above what it was.
C10_StrictNarrowing ==
  [][GuessAppended =>
       LET g == lastOf(guesses')
           old == getEffectiveRange(puzzle, guesses)
           new == getEffectiveRange(puzzle, guesses')
       IN  /\ g > puzzle.amount => new.max = g - 1 /\ new.max < old.max
           /\ g < puzzle.amount => new.min = g + 1 /\ new.min > old.min]_vars

\* a second submitted guess, over the amount, has set the max under a first one
C10_Witness ==
  /\ state = "guess"
  /\ Len(guesses) = 2
  /\ guesses[1] < puzzle.amount
  /\ guesses[2] > puzzle.amount
  /\ effectiveRange = [min |-> guesses[1] + 1, max |-> guesses[2] - 1]

\* the rearrangements of a sequence of n guesses
Perms(n) == {f \in [1 .. n -> 1 .. n] : \A i, j \in 1 .. n : f[i] = f[j] => i = j}
permuted(gs, f) == [i \in 1 .. Len(gs) |-> gs[f[i]]]

\* C11: the effective range does not depend on the order of the guesses:
\* every rearrangement of the guess sequence yields the same {min, max}.
C11_OrderIndependent ==
  \A f \in Perms(Len(guesses)) :
    getEffectiveRange(puzzle, permuted(guesses, f)) = result
\* two different guesses on the same side, the tighter one made first
C11_Witness ==
  /\ Len(guesses) = 2
  /\ guesses[2] < guesses[1] /\ guesses[1] < puzzle.amount
  /\ baseRange(puzzle).min <= guesses[2]
  /\ result.min = guesses[1] + 1

\* C12: getFeedback is total over the integers: it answers 'correct' exactly
\* when the guess equals the amount, 'too-high' exactly when it is greater
\* and 'too-low' exactly when it is smaller.
C12_FeedbackTotal ==
  "getFeedback" \in DOMAIN result =>
    /\ result["getFeedback"] \in {"correct", "too-high", "too-low"}
    /\ result["getFeedback"] = "correct" <=> args.guess = puzzle.amount
    /\ result["getFeedback"] = "too-high" <=> args.guess > puzzle.amount
    /\ result["getFeedback"] = "too-low" <=> args.guess < puzzle.amount
\* a negative guess is judged too low
C12_Witness ==
  /\ "getFeedback" \in DOMAIN result
  /\ args.guess < 0
  /\ result["getFeedback"] = "too-low"

\* two percentages as fractions are the same number
PctEq(p, q) == p.num * q.den = q.num * p.den

\* C13: calculatePercentageError(guess, actual) is |actual - guess| * 100 /
\* actual when actual > 0, and is never negative; when actual = 0 it is
\* exactly 100 for every guess, the guess 0 included.
C13_PercentageError ==
  "calculatePercentageError" \in DOMAIN result =>
    LET pe == result["calculatePercentageError"]
        actual == puzzle.amount
        distance == IF actual >= args.guess THEN actual - args.guess ELSE args.guess - actual
    IN  /\ pe.den > 0
        /\ pe.num >= 0
        /\ IF actual = 0
             THEN pe.num = 100 * pe.den
             ELSE pe.num * actual = distance * 100 * pe.den
\* the amount 0 guessed exactly still has the error 100
C13_Witness ==
  /\ "calculatePercentageError" \in DOMAIN result
  /\ puzzle.amount = 0 /\ args.guess = 0
  /\ result["calculatePercentageError"].num = 100 * result["calculatePercentageError"].den

\* C14: the percentage error is symmetric about the amount: for an amount
\* a > 0 and a distance 0 <= d < a, the guesses a - d and a + d have the same
\* percentage error.
C14_Symmetric ==
  LET a == puzzle.amount
      d == a - args.guess
  IN  ("calculatePercentageError" \in DOMAIN result /\ a > 0 /\ 0 <= d /\ d < a) =>
        PctEq(result["calculatePercentageError"], calculatePercentageError(a + d, a))
\* a guess strictly below the amount, and its mirror image above
C14_Witness ==
  /\ "calculatePercentageError" \in DOMAIN result
  /\ puzzle.amount = 20 /\ args.guess = 13
  /\ PctEq(result["calculatePercentageError"], [num |-> 35, den |-> 1])
  /\ PctEq(calculatePercentageError(27, 20), [num |-> 35, den |-> 1])

\* C15: a guess is a bullseye exactly when its percentage error is at most 5
\* (exactly 5% included), above the amount as well as below it, and the three
\* places that decide it agree: handleGuess ends the session on it,
\* getRatingGrade grades a single such guess S, and RevealScreen labels the
\* guess and, in a session that was not forfeited, raises its bullseye flag.
C15_BullseyeThreshold ==
  LET a == puzzle.amount
      g == args.guess
      distance == IF a >= g THEN a - g ELSE g - a
      within5 == a /= 0 /\ 100 * distance <= 5 * a
  IN  /\ (Len(guesses) = 1 /\ g /= a) => (state = "reveal" <=> within5)
      /\ "RevealScreen" \in DOMAIN result =>
           LET screen == result["RevealScreen"]
           IN  /\ screen.isBullseye <=> (~screen.isForfeit /\ within5)
               /\ ~screen.isForfeit => (screen.rating = "S" <=> within5)
               /\ g /= a => (screen.labels[1] = "bullseye" <=> within5)
\* a guess strictly above the amount, at exactly 5%
C15_Witness ==
  /\ puzzle.amount = 20 /\ args.guess = 21
  /\ guesses = <<21>> /\ state = "reveal"
  /\ "RevealScreen" \in DOMAIN result
  /\ result["RevealScreen"].isBullseye
  /\ result["RevealScreen"].rating = "S"
  /\ result["RevealScreen"].labels = <<"bullseye">>

\* C16: the reveal-screen label of a guess is 'correct' when it equals the
\* amount, otherwise 'bullseye' when its percentage error is at most 5,
\* otherwise 'too-high' or 'too-low' by comparison with the amount; and the
\* range after the guess is narrowed by the comparison alone: a guess labelled
\* 'bullseye' above the amount lowers max to guess - 1, one below the amount
\* raises min to guess + 1.
C16_RevealLabel ==
  LET a == puzzle.amount
      g == args.guess
      distance == IF a >= g THEN a - g ELSE g - a
      within5 == a /= 0 /\ 100 * distance <= 5 * a
      label == result["RevealScreen"].labels[1]
      narrowed == result["getEffectiveRange"]
  IN  "RevealScreen" \in DOMAIN result =>
        /\ label = IF g = a THEN "correct"
                   ELSE IF within5 THEN "bullseye"
                   ELSE IF g > a THEN "too-high"
                   ELSE "too-low"
        /\ "getEffectiveRange" \in DOMAIN result =>
             /\ g > a => narrowed = [min |-> defaultRange.min, max |-> g - 1]
             /\ g < a /\ g >= 0 => narrowed = [min |-> g + 1, max |-> defaultRange.max]
             /\ g < 0 \/ g = a => narrowed = defaultRange
\* a guess within 5% above the amount: labelled bullseye, and max lowered
C16_Witness ==
  /\ puzzle.amount = 21 /\ args.guess = 22
  /\ "RevealScreen" \in DOMAIN result
  /\ "getEffectiveRange" \in DOMAIN result
  /\ result["RevealScreen"].labels = <<"bullseye">>
  /\ result["getEffectiveRange"] = [min |-> 0, max |-> 21]

\* the default the claim describes for a puzzle and its guess sequence
defaultGuess(p, gs) ==
  IF Len(gs) = 0 THEN baseRange(p).min
  ELSE LET last == lastOf(gs)
           adjusted == IF last < p.amount THEN last + 1
                       ELSE IF last > p.amount THEN last - 1
                       ELSE last
           eff == getEffectiveRange(p, gs)
       IN  MathMax(eff.min, MathMin(eff.max, adjusted))

\* C17: the value offered for the next guess, whenever the guess screen
\* mounts or a guess has just been added to its list, is range.min when no
\* guess has been made, and otherwise the last guess plus 1 if it was too
\* low, minus 1 if it was too high (unchanged if correct), clamped into the
\* effective range of all the guesses: max(eff.min, min(eff.max, adjusted)).
C17_DefaultGuess ==
  [][ ( /\ state' = "guess"
        /\ puzzle' /= NoPuzzle
        /\ state /= "guess" \/ Len(guesses') /= Len(guesses) )
      => guess' = defaultGuess(puzzle', guesses') ]_vars
\* after two guesses, the last one too high: the value offered is one below it
C17_Witness ==
  /\ state = "guess"
  /\ Len(guesses) = 2
  /\ lastOf(guesses) > puzzle.amount
  /\ guess = lastOf(guesses) - 1
  /\ ~isEditing

\* C18: the star rating is the fixed table F = 0, D = 1, C = 2, B = 3, A = 4,
\* S = 5 of the grade, so it is always within 0 .. 5; a session of a single
\* exact first guess (grade S) shows 5 stars.
C18_StarTable ==
  result /= <<>> =>
    /\ result.stars \in 0 .. 5
    /\ result.grade = "F" <=> result.stars = 0
    /\ result.grade = "D" <=> result.stars = 1
    /\ result.grade = "C" <=> result.stars = 2
    /\ result.grade = "B" <=> result.stars = 3
    /\ result.grade = "A" <=> result.stars = 4
    /\ result.grade = "S" <=> result.stars = 5
    /\ ( /\ Len(args.guesses) = 1
         /\ args.percentageError.num = 0
         /\ ~args.isForfeit ) => result.stars = 5
\* one guess with no error, not forfeited: five stars
C18_Witness ==
  /\ result /= <<>>
  /\ Len(args.guesses) = 1
  /\ args.percentageError.num = 0
  /\ ~args.isForfeit
  /\ result.grade = "S" /\ result.stars = 5

\* C19: once the session is revealed no further guess is appended to it:
\* over any step that starts and ends with the revealed flag set, the stored
\* guess sequence is unchanged and no guess is appended to the sequence in
\* memory, whatever the user does (the resources screen and back included).
C19_RevealedIsFinal ==
  [][ \A d \in Dates :
        (isRevealed(storage, d) /\ isRevealed(storage', d)) =>
          /\ getGuesses(storage', d) = getGuesses(storage, d)
          /\ ~GuessAppended ]_vars

\* a load that returned the puzzle has just run to its end
loadedPuzzle == loads' < loads /\ puzzle' /= NoPuzzle /\ state' /= "error"

\* C20: a session survives a restart.  While a puzzle is on screen the stored
\* guess sequence is the sequence submitted so far, in order; a reload and the
\* wait for the puzzle leave the store as it is; and a load that returns the
\* puzzle takes the stored sequence as the guesses and starts in 'reveal'
\* exactly when the stored session is revealed and has at least one guess,
\* otherwise in 'guess'.
C20_SessionSurvivesReload ==
  /\ []( (puzzle /= NoPuzzle /\ state \in {"guess", "reveal", "about", "resources"})
           => getGuesses(storage, puzzle.date) = guesses )
  /\ [][ (puzzle = NoPuzzle \/ puzzle' = NoPuzzle) => storage' = storage ]_vars
  /\ [][ loadedPuzzle =>
           LET stored == getGuesses(storage, puzzle'.date)
               revealed == isRevealed(storage, puzzle'.date)
           IN  /\ guesses' = stored
               /\ state' = IF revealed /\ Len(stored) >= 1 THEN "reveal" ELSE "guess" ]_vars
\* the page was reloaded over a revealed session of two guesses and waits
\* for its puzzle
C20_Witness ==
  /\ state = "loading" /\ puzzle = NoPuzzle /\ guesses = <<>>
  /\ \E d \in Dates : isRevealed(storage, d) /\ Len(getGuesses(storage, d)) = 2

\* C21: a forfeited session is graded 'F' on every display.  Whenever its
\* reveal screen is shown with the forfeit flag the grade is 'F', and over
\* every step that keeps the forfeited session in the store, a reload of the
\* page included, the grade computed from the stored guesses and the forfeit
\* flag the app then holds is still 'F'.
C21_ForfeitGradeKept ==
  /\ []( (state = "reveal" /\ isForfeit /\ Len(guesses) > 0)
           => RevealScreen(puzzle, guesses, isForfeit).rating = "F" )
  /\ [][ ( /\ isForfeit
           /\ puzzle /= NoPuzzle
           /\ isRevealed(storage', puzzle.date)
           /\ getGuesses(storage', puzzle.date) = guesses
           /\ Len(guesses) > 0 )
         => RevealScreen(puzzle, getGuesses(storage', puzzle.date), isForfeit').rating = "F" ]_vars

\* C22: when loadTodayPuzzle returns null (neither today's puzzle nor the
\* latest puzzle of the index could be fetched) the app enters 'error' and
\* never leaves it: from 'error' the only way on is a reload of the page.
C22_ErrorIsFinal ==
  [][ state = "error" => state' \in {"error", "loading"} ]_vars

\* a step of handleHome: a screen with the back button gives way to 'loading'
\* while the puzzle stays in memory
wentHome ==
  /\ state \in {"about", "reveal", "resources"}
  /\ state' = "loading"
  /\ puzzle' /= NoPuzzle

\* C23: reset clears the whole session.  After handleHome the store holds no
\* guesses and no revealed flag for the puzzle date, the guess list in memory
\* is empty and the forfeit flag is false, while the theme key is as it was;
\* and the load that handleHome started, when it returns the puzzle, puts the
\* app in 'guess' with zero guesses.
C23_ResetClearsSession ==
  /\ [][ wentHome =>
           /\ \A k \in {"guesses", "guess", "revealed", "bullseye-shown"} :
                storage'[<<puzzle.date, k>>] = Absent
           /\ guesses' = <<>>
           /\ isForfeit' = FALSE
           /\ storage'[ThemeKey] = storage[ThemeKey] ]_vars
  /\ [][ (state = "loading" /\ puzzle /= NoPuzzle /\ loadedPuzzle)
           => (state' = "guess" /\ guesses' = <<>>) ]_vars
\* reset done under the light theme: the session keys are gone, the theme
\* key still says light, and the load is on its way
C23_Witness ==
  /\ state = "loading" /\ puzzle /= NoPuzzle /\ loads > 0
  /\ storage[<<puzzle.date, "guesses">>] = Absent
  /\ storage[<<puzzle.date, "revealed">>] = Absent
  /\ storage[ThemeKey] = <<"light">>
  /\ guesses = <<>> /\ ~isForfeit

\* C24: every guess accepted by handleSubmit lies inside the effective range
\* of the guesses submitted before it; so it repeats none of them and
\* contradicts none of their feedback: it is above every earlier guess that
\* was too low and below every earlier guess that was too high.
C24_AcceptedInsideRange ==
  [][ GuessAppended =>
        LET g == lastOf(guesses')
            eff == getEffectiveRange(puzzle, guesses)
        IN  /\ eff.min <= g /\ g <= eff.max
            /\ \A i \in 1 .. Len(guesses) :
                 /\ guesses[i] /= g
                 /\ guesses[i] < puzzle.amount => g > guesses[i]
                 /\ guesses[i] > puzzle.amount => g < guesses[i] ]_vars

\* C25: for a puzzle with range.min < range.max, whether or not its amount
\* lies inside the range, the effective range is non-empty whenever the app
\* is in 'guess' with fewer than 5 guesses, so that a valid guess exists.
C25_RangeNeverEmpty ==
  ( /\ state = "guess"
    /\ puzzle /= NoPuzzle
    /\ baseRange(puzzle).min < baseRange(puzzle).max
    /\ Len(guesses) < 5 )
  => effectiveRange.min <= effectiveRange.max

\* C26: only the last guess of a session can be an exact match or a bullseye:
\* every guess before the last is more than 5% off; so a revealed session
\* that was not forfeited has exactly 5 guesses when it is graded C, D or F,
\* and ends on a guess within 5% when it is graded S, A or B.
C26_OnlyLastGuessHits ==
  puzzle /= NoPuzzle =>
    /\ \A i \in 1 .. Len(guesses) - 1 : ~WithinPct(guesses[i], puzzle.amount, 5)
    /\ (state = "reveal" /\ ~isForfeit /\ Len(guesses) > 0) =>
         LET rating == RevealScreen(puzzle, guesses, isForfeit).rating
         IN  /\ rating \in {"C", "D", "F"} => Len(guesses) = 5
             /\ rating \in {"S", "A", "B"} => WithinPct(lastOf(guesses), puzzle.amount, 5)

\* C27: store and memory stay in step.  While a puzzle is loaded and the app
\* is in 'guess', 'reveal', 'about' or 'resources', the guess list stored for
\* the puzzle date is the guess list in memory; in 'reveal' the stored
\* revealed flag of that date is set; and a guess submission that leaves the
\* flag set leaves the submitted guess stored with it.
C27_StoreInStep ==
  /\ []( (puzzle /= NoPuzzle /\ state \in {"guess", "reveal", "about", "resources"})
           => /\ getGuesses(storage, puzzle.date) = guesses
              /\ state = "reveal" => isRevealed(storage, puzzle.date) )
  /\ [][ (GuessAppended /\ isRevealed(storage', puzzle.date))
           => /\ Len(getGuesses(storage', puzzle.date)) = Len(guesses) + 1
              /\ lastOf(getGuesses(storage', puzzle.date)) = lastOf(guesses') ]_vars
\* a forfeited session on the reveal screen: five guesses stored, flag set
C27_Witness ==
  /\ state = "reveal" /\ isForfeit
  /\ Len(guesses) = 5
  /\ getGuesses(storage, puzzle.date) = guesses
  /\ isRevealed(storage, puzzle.date)

\* the stars of a session that was not forfeited
starsOf(gs, percentageError) == getStarRating(getRatingGrade(gs, percentageError, FALSE))

\* C28: grading is monotone.  With isForfeit false, for the same guess count
\* no smaller final percentage error yields fewer stars, and for the same
\* final percentage error no smaller guess count yields fewer stars.
C28_GradingMonotone ==
  (result /= <<>> /\ ~args.isForfeit) =>
    /\ \A smaller \in PctInputs :
         smaller.num * args.percentageError.den <= args.percentageError.num * smaller.den
           => starsOf(args.guesses, smaller) >= result.stars
    /\ \A fewer \in GradeGuesses :
         Len(fewer) <= Len(args.guesses)
           => starsOf(fewer, args.percentageError) >= result.stars
\* grade A on three guesses: one guess fewer than two would have given S,
\* an error over 5% would have given C or worse
C28_Witness ==
  /\ result /= <<>> /\ ~args.isForfeit
  /\ Len(args.guesses) = 3
  /\ args.percentageError.num = 5 * args.percentageError.den
  /\ result.grade = "A"
  /\ starsOf(<<20>>, args.percentageError) = 5
  /\ starsOf(args.guesses, [num |-> 11, den |-> 2]) = 2

\* a load runs to its end while a puzzle from an earlier load is in memory
laterCompletion == loads' < loads /\ puzzle /= NoPuzzle /\ puzzle' /= NoPuzzle

=============================================================================
